---- MODULE Spec2Model ----
(***************************************************************************)
(* Model of 9._Crear_contenedores_desde_CSV_c.py: the event store (CSV     *)
(* file), the menu's create action, the reconciliation batch               *)
(* (crear_desde_csv) with its per-record cycle, the status poller          *)
(* (obtener_monitor) and the store rewrite (_actualizar_content_id).       *)
(* The container runtime, the status endpoint and the file system are the  *)
(* environment: each call to them returns or fails nondeterministically.   *)
(***************************************************************************)
EXTENDS Integers, Sequences, FiniteSets, TLC

(***************************************************************************)
(* Bounds of the model.                                                    *)
(***************************************************************************)
MaxFilas == 2        \* records a store may hold
MaxLote == 2         \* indices in one batch request
MaxIntentos == 7     \* largest `intentos` argument tried on obtener_monitor alone
MaxLlamadas == 2     \* calls in a row of a function tried on its own

(***************************************************************************)
(* Program constants.                                                      *)
(***************************************************************************)
IntentosDefault == 10
PuertoMin == 1024
PuertoMax == 65535
BitrateMax == 10000000

Cabeceras ==
    <<"name", "title", "port", "service_access_token", "tracker", "source",
      "host", "bitrate", "content_id">>

NoEncontrado == "No encontrado"

TrackerDefault == "udp://tracker.opentrackr.org:1337/announce"

(***************************************************************************)
(* Text conversions, on the sample strings the model uses.                 *)
(***************************************************************************)
\* str.strip(): the only sample with surrounding whitespace is " ".
Strip(s) == IF s = " " THEN "" ELSE s

\* `x or default`
ODefault(s, d) == IF s = "" THEN d ELSE s

\* int(s): ok = FALSE stands for ValueError.
Entero(s) ==
    CASE s = "8642"   -> [ok |-> TRUE, val |-> 8642]
      [] s = "08642"  -> [ok |-> TRUE, val |-> 8642]
      [] s = "80"     -> [ok |-> TRUE, val |-> 80]
      [] s = "697587" -> [ok |-> TRUE, val |-> 697587]
      [] OTHER        -> [ok |-> FALSE, val |-> 0]

\* str(n)
Texto(n) ==
    CASE n = 8642   -> "8642"
      [] n = 80     -> "80"
      [] n = 697587 -> "697587"
      [] OTHER      -> "0"

(***************************************************************************)
(* EventoConfig and its validation.                                        *)
(***************************************************************************)
\* Sample names that re.match(r'^[a-zA-Z0-9_-]+$', nombre) accepts; "a b" and
\* "" are not accepted. In Python `$` also matches before a newline that ends
\* the string, so "a\n" is accepted.
NombresPatron == {"a", "b", "c", "a\n"}

\* Names the container runtime is ever asked about in the model.
Nombres == {"a", "b"}

\* Sample hosts: "10.0.0.5" is an IP literal, "example.com" a domain,
\* "bad host" is neither. The pattern of _es_dominio_valido ends in `$` and
\* is used with re.match, so it accepts "example.com\n" as well;
\* ipaddress.ip_address does not.
EsIpValida(h) == h = "10.0.0.5"

EsDominioValido(h) == h \in {"10.0.0.5", "example.com", "example.com\n"}

\* EventoConfig.validar: the violations, in the order of the checks.
Validar(c) ==
    (IF c.nombre = "" \/ c.nombre \notin NombresPatron THEN <<"nombre">> ELSE <<>>)
    \o (IF ~(PuertoMin <= c.puerto /\ c.puerto <= PuertoMax) THEN <<"puerto">> ELSE <<>>)
    \o (IF ~EsIpValida(c.host) /\ ~EsDominioValido(c.host) THEN <<"host">> ELSE <<>>)
    \o (IF ~(0 <= c.bitrate /\ c.bitrate <= BitrateMax) THEN <<"bitrate">> ELSE <<>>)
    \o (IF Strip(c.titulo) = "" THEN <<"titulo">> ELSE <<>>)
    \o (IF Strip(c.source) = "" THEN <<"source">> ELSE <<>>)

ConfigNula ==
    [nombre |-> "", titulo |-> "", puerto |-> 0, tracker |-> "", source |-> "",
     host |-> "", bitrate |-> 0, token |-> ""]

\* Records validar is tried with when it is called on its own: every
\* combination of these field values.
ConfigsMuestra ==
    [nombre : {"a", "a b", "", "a\n"},
     titulo : {"T", " ", ""},
     puerto : {80, 1023, 1024, 8642, 65535, 65536},
     tracker : {TrackerDefault},
     source : {"s", " "},
     host : {"10.0.0.5", "example.com", "bad host", "example.com\n"},
     bitrate : {-1, 0, 697587, 10000000, 10000001},
     token : {"12345"}]

(***************************************************************************)
(* The store file: a sequence of rows, each a tuple of field strings.      *)
(* A file the program wrote starts with the header row.                    *)
(***************************************************************************)
\* csv.DictReader: the first row gives the field names, each later row is a
\* dict from those names to its values.
LeerEventosCsv(f) ==
    IF f = <<>> THEN <<>>
    ELSE [i \in 1..(Len(f) - 1) |-> [hdr |-> f[1], row |-> f[i + 1]]]

\* `campo in evento`
Tiene(ev, campo) == \E j \in 1..Len(ev.hdr) : ev.hdr[j] = campo

\* evento[campo] for a key that is present (the last column of that name wins)
Campo(ev, campo) ==
    LET js == {j \in 1..Len(ev.hdr) : ev.hdr[j] = campo}
        j == CHOOSE x \in js : \A y \in js : y <= x
    IN  IF j <= Len(ev.row) THEN ev.row[j] ELSE ""

\* evento.get(campo, '')
Get(ev, campo) == IF Tiene(ev, campo) THEN Campo(ev, campo) ELSE ""

\* _guardar_evento: ok = FALSE stands for the ValueError on a wrong arity.
GuardarEvento(f, evento) ==
    IF Len(evento) # Len(Cabeceras)
    THEN [ok |-> FALSE, csv |-> f]
    ELSE [ok |-> TRUE, csv |-> Append(f, evento)]

\* The list main() hands to _guardar_evento.
FilaDeConfig(c) ==
    <<c.nombre, c.titulo, Texto(c.puerto), c.token, c.tracker, c.source, c.host,
      Texto(c.bitrate), "">>

\* A rewrite that fills in a content id only where none is stored yet.
FilaSinSobrescribir(ev, nombre, cid) ==
    [i \in 1..Len(Cabeceras) |->
        IF Cabeceras[i] = "content_id" /\ Campo(ev, "name") = nombre
           /\ Get(ev, "content_id") = ""
        THEN cid
        ELSE Get(ev, Cabeceras[i])]

\* The row _actualizar_content_id writes for one evento.
FilaActualizada(ev, nombre, cid) ==
    [i \in 1..Len(Cabeceras) |->
        IF Cabeceras[i] = "content_id" /\ Campo(ev, "name") = nombre
        THEN cid
        ELSE Get(ev, Cabeceras[i])]

(***************************************************************************)
(* The container runtime (docker), seen through its command line.          *)
(* cont[n] is the number of containers named n that `docker ps -a` lists.  *)
(* Every command either exits 0 or fails (CalledProcessError).             *)
(***************************************************************************)
\* parar_contenedor: `docker stop <id>`. The id is the whole stdout of the
\* lookup, so with several containers of that name it is no valid id.
PararContenedor(cont, n) ==
    {[ok |-> FALSE, cont |-> cont]}
    \cup (IF cont[n] = 1 THEN {[ok |-> TRUE, cont |-> cont]} ELSE {})

\* borrar_contenedor: `docker rm <id>`
BorrarContenedor(cont, n) ==
    {[ok |-> FALSE, cont |-> cont],
     [ok |-> TRUE, cont |-> [cont EXCEPT ![n] = @ - 1]]}

\* A lookup that finds a container and goes on without stopping and removing it.
VerificarSinLimpiar(cont, n) ==
    {[ok |-> FALSE, cont |-> cont], [ok |-> TRUE, cont |-> cont]}

\* verificar_y_limpiar_contenedor: ok = FALSE stands for the re-raised error.
VerificarYLimpiarContenedor(cont, n) ==
    {[ok |-> FALSE, cont |-> cont]}                       \* docker ps -a fails
    \cup (IF cont[n] = 0
          THEN {[ok |-> TRUE, cont |-> cont]}              \* stdout empty
          ELSE UNION {IF p.ok THEN BorrarContenedor(p.cont, n) ELSE {p}
                        : p \in PararContenedor(cont, n)})

\* ejecutar_docker: `docker run -d --name n ...`. A failed run may have
\* created the container before failing (e.g. the port is taken).
EjecutarDocker(cont, n) ==
    {[ok |-> TRUE, cont |-> [cont EXCEPT ![n] = @ + 1]],
     [ok |-> FALSE, cont |-> cont],
     [ok |-> FALSE, cont |-> [cont EXCEPT ![n] = @ + 1]]}

(***************************************************************************)
(* The data volume acestreamengine_<name> and its sanitizer.               *)
(***************************************************************************)
Archivos == {"a.acelive", "b.sauth", "c.tmp", "sub"}

\* Children a volume directory is tried with when the sanitizer is called on
\* its own: two more files to delete and a directory with an extension.
HijosMuestra == Archivos \cup {"d.log", "sub.tmp"}

\* Path.is_file(): "sub" and "sub.tmp" are directories
EsArchivo(a) == a \notin {"sub", "sub.tmp"}

Sufijo(a) ==
    CASE a = "a.acelive" -> ".acelive"
      [] a = "b.sauth"   -> ".sauth"
      [] a = "c.tmp"     -> ".tmp"
      [] a = "d.log"     -> ".log"
      [] a = "sub.tmp"   -> ".tmp"
      [] OTHER           -> ""

ExtensionesPermitidas == {".acelive", ".sauth"}

VolumenAusente == [existe |-> FALSE, archivos |-> {}]

\* A volume name that does not depend on the record.
NombreVolumenFijo(nombre) == <<"acestreamengine", "a">>

\* nombre_volumen = f"acestreamengine_{config.nombre}", as prefix and name
NombreVolumen(nombre) == <<"acestreamengine", nombre>>

\* The volume of "-v", f"acestreamengine_{config.nombre}:/data"
VolumenDeRun(c) == <<"acestreamengine", c.nombre>>

\* The volumes of the names the runtime is asked about.
Volumenes == {<<"acestreamengine", n>> : n \in Nombres}

\* What a started container leaves in its volume.
VolumenEnUso == [existe |-> TRUE, archivos |-> Archivos]

\* limpiar_archivos_temporales: the outcomes of one call, each with the volume
\* it leaves, the count it returns, the files whose unlink() raised and what
\* went wrong inside:
\*   "so"      platform.system() is neither Windows nor Linux: return 0
\*   "ausente" ruta_base.exists() is false: return 0
\*   "scan"    exists(), iterdir() or the is_file() of some child raises; the
\*             children seen before it (in the order of the listing, which is
\*             any) have been handled, and the outer except returns 0
\*   "unlink"  the scan ended and some deletions failed
\*   "ninguna" nothing failed
LimpiarArchivosTemporales(vol) ==
    LET borrables == {a \in vol.archivos :
                         EsArchivo(a) /\ Sufijo(a) \notin ExtensionesPermitidas}
        R(v, n, c, f) == [vol |-> v, eliminados |-> n, causa |-> c, fallan |-> f]
        Sin(d) == [vol EXCEPT !.archivos = @ \ d]
    IN  {R(vol, 0, "so", {}), R(vol, 0, "scan", {})}
        \cup (IF ~vol.existe
              THEN {R(vol, 0, "ausente", {})}
              ELSE {R(Sin(borrables \ f), Cardinality(borrables \ f),
                      IF f = {} THEN "ninguna" ELSE "unlink", f)
                      : f \in SUBSET borrables}
                   \cup UNION {{R(Sin(d), 0, "scan", f) : f \in SUBSET (borrables \ d)}
                                : d \in {x \in SUBSET borrables : x # vol.archivos}})

(***************************************************************************)
(* The status endpoint: what one GET of /app/<port>/monitor can give.      *)
(***************************************************************************)
Cids == {"X", "Y"}

Respuestas ==
    {[tipo |-> t, cid |-> ""] : t \in {"timeout", "http500", "nojson", "nodict", "sin_cid"}}
    \cup {[tipo |-> "json", cid |-> c] : c \in {"", NoEncontrado} \cup Cids}

LanzaRequestException(r) == r.tipo = "timeout"

StatusCode(r) == IF r.tipo = "http500" THEN 500 ELSE 200

\* response.json() raises ValueError
JsonInvalido(r) == r.tipo = "nojson"

\* response.json() is a dict, so that .get exists
EsDict(r) == r.tipo \in {"sin_cid", "json"}

\* `content_id and content_id != 'No encontrado'`
CidUsable(r) == r.tipo = "json" /\ r.cid # "" /\ r.cid # NoEncontrado

(***************************************************************************)
(* User input of the create action, and stores found at start-up.          *)
(***************************************************************************)
EntradaBase(n) ==
    [nombre |-> n, titulo |-> "T", puerto |-> "", tracker |-> "", source |-> "s",
     host |-> "10.0.0.5", bitrate |-> "", token |-> ""]

Entradas ==
    {EntradaBase(n) : n \in Nombres}
    \cup {[EntradaBase("a") EXCEPT !.puerto = p] : p \in {"80", "abc", "08642"}}
    \cup {[EntradaBase("b") EXCEPT !.titulo = " "]}

\* solicitar_datos_evento: ok = FALSE stands for the ValueError of int().
SolicitarDatosEvento(e) ==
    LET p == Entero(ODefault(Strip(e.puerto), "8642"))
        b == Entero(ODefault(Strip(e.bitrate), "697587"))
    IN  [ok |-> p.ok /\ b.ok,
         config |-> [nombre |-> Strip(e.nombre), titulo |-> Strip(e.titulo),
                     puerto |-> p.val,
                     tracker |-> ODefault(Strip(e.tracker), TrackerDefault),
                     source |-> Strip(e.source), host |-> Strip(e.host),
                     bitrate |-> b.val,
                     token |-> ODefault(Strip(e.token), "12345")]]

\* EventoConfig(...) built from a row of the store in crear_desde_csv:
\* ok = FALSE stands for the KeyError of a missing column or the ValueError
\* of int().
ConfigDeEvento(ev) ==
    LET claves == {"name", "title", "port", "tracker", "source", "host", "bitrate",
                   "service_access_token"}
        p == Entero(Get(ev, "port"))
        b == Entero(Get(ev, "bitrate"))
    IN  [ok |-> (\A c \in claves : Tiene(ev, c)) /\ p.ok /\ b.ok,
         config |-> [nombre |-> Get(ev, "name"), titulo |-> Get(ev, "title"),
                     puerto |-> p.val, tracker |-> Get(ev, "tracker"),
                     source |-> Get(ev, "source"), host |-> Get(ev, "host"),
                     bitrate |-> b.val, token |-> Get(ev, "service_access_token")]]

\* Rows a store edited by hand may hold: a port below 1024 and a port that is
\* no number.
FilaPuerto80 ==
    <<"c", "T", "80", "12345", TrackerDefault, "s", "10.0.0.5", "697587", "">>

FilaPuertoNoNumerico ==
    <<"c", "T", "abc", "12345", TrackerDefault, "s", "10.0.0.5", "697587", "">>

\* _inicializar_csv: an absent file is created with the header alone; an
\* existing one is kept.
ArchivosIniciales ==
    {<<Cabeceras>>, <<Cabeceras, FilaPuerto80>>, <<Cabeceras, FilaPuertoNoNumerico>>}

(***************************************************************************)
(* State.                                                                  *)
(***************************************************************************)
VARIABLES
    csv,           \* rows of eventos.csv
    contenedores,  \* [Nombres -> Nat]: containers of each name in the runtime
    volumen,       \* [Volumenes -> volume]: the data volumes, by volume name
    pc,            \* where the program stands
    eventos,       \* crear_desde_csv: the rows read at the start of the batch
    indices,       \* crear_desde_csv: the requested indices
    pos,           \* crear_desde_csv: position of the loop in indices
    config,        \* crear_desde_csv: EventoConfig of the current record
    intentos,      \* obtener_monitor: its argument
    intento,       \* obtener_monitor: GETs issued so far
    monitor,       \* obtener_monitor: how the call ended
    visto,         \* content id of the usable response delivered in this call
    escritura,     \* _actualizar_content_id: rows read, rows written so far
    ciclo,         \* history of the current record's cycle
    lote,          \* history of the current batch
    traza,         \* obtener_monitor: the waits and GETs of the call, in order
    docker,        \* EventoConfig the runtime was last invoked for by the handler
    llamada        \* a function called on its own: its argument and what it returned

vars ==
    <<csv, contenedores, volumen, pc, eventos, indices, pos, config, intentos,
      intento, monitor, visto, escritura, ciclo, lote, traza, docker, llamada>>

sondeoVars == <<intentos, intento, monitor, visto, traza>>

MonitorPendiente == [estado |-> "pendiente", cid |-> ""]

EscrituraNula == [antes |-> <<>>, evs |-> <<>>, k |-> 0, nombre |-> "", cid |-> ""]

\* What the last call of the sanitizer returned, until the launch that follows.
LimpiezaNula == [causa |-> "", eliminados |-> 0]

CicloNulo ==
    [nombre |-> "", desalojado |-> FALSE, lanzado |-> FALSE, sondeo |-> "no",
     cid |-> "", commit |-> "no", fin |-> "", csv0 |-> <<>>, pasos |-> <<>>,
     limpieza |-> LimpiezaNula, saneado |-> <<>>, montado |-> <<>>]

\* One step of a cycle as its history keeps it: ok = FALSE when the call raised.
Paso(p, ok) == [paso |-> p, ok |-> ok]

LoteNulo ==
    [resultado |-> "", iniciados |-> <<>>, fines |-> <<>>, ops |-> FALSE, sondeos |-> 0]

LlamadaNula == [fn |-> "", n |-> 0, arg |-> <<>>, res |-> <<>>, previo |-> <<>>]

Init ==
    /\ csv \in ArchivosIniciales
    /\ contenedores = [n \in Nombres |-> 0]
    /\ volumen = [v \in Volumenes |-> VolumenAusente]
    /\ pc = "menu"
    /\ eventos = <<>>
    /\ indices = <<>>
    /\ pos = 0
    /\ config = ConfigNula
    /\ intentos = 0
    /\ intento = 0
    /\ monitor = MonitorPendiente
    /\ visto = ""
    /\ escritura = EscrituraNula
    /\ ciclo = CicloNulo
    /\ lote = LoteNulo
    /\ traza = <<>>
    /\ docker = ConfigNula
    /\ llamada = LlamadaNula

(***************************************************************************)
(* main(), option 1: create a record.                                      *)
(***************************************************************************)
\* Option 1 with the container of the name evicted before the violations
\* are looked at.
CrearSinValidar(e) ==
    /\ pc = "menu"
    /\ Len(csv) <= MaxFilas
    /\ LET s == SolicitarDatosEvento(e) IN
       IF ~s.ok
       THEN /\ UNCHANGED <<csv, contenedores>>
            /\ docker' = ConfigNula
       ELSE \E r \in VerificarYLimpiarContenedor(contenedores, s.config.nombre) :
                /\ contenedores' = r.cont
                /\ docker' = s.config
                /\ csv' = IF r.ok /\ Validar(s.config) = <<>>
                          THEN GuardarEvento(csv, FilaDeConfig(s.config)).csv
                          ELSE csv
    /\ UNCHANGED <<volumen, pc, eventos, indices, pos, config, sondeoVars, escritura,
                   ciclo, lote, llamada>>

Crear(e) ==
    /\ pc = "menu"
    /\ Len(csv) <= MaxFilas
    /\ LET s == SolicitarDatosEvento(e) IN
       IF ~s.ok \/ Validar(s.config) # <<>>
       THEN /\ UNCHANGED <<csv, contenedores>>   \* ValueError, or the violations are printed
            /\ docker' = ConfigNula
       ELSE \E r \in VerificarYLimpiarContenedor(contenedores, s.config.nombre) :
                /\ contenedores' = r.cont
                /\ docker' = s.config
                /\ csv' = IF r.ok
                          THEN GuardarEvento(csv, FilaDeConfig(s.config)).csv
                          ELSE csv
    /\ UNCHANGED <<volumen, pc, eventos, indices, pos, config, sondeoVars, escritura,
                   ciclo, lote, llamada>>

(***************************************************************************)
(* main(), option 3, and crear_desde_csv.                                  *)
(***************************************************************************)
\* The index lists a user may ask for, 0-based as crear_desde_csv gets them:
\* n is the first index out of range.
Lotes(n) == UNION {[1..k -> 0..n] : k \in 1..MaxLote}

LoteIniciar(ind) ==
    /\ pc = "menu"
    /\ LeerEventosCsv(csv) # <<>>            \* mostrar_eventos_csv found rows
    /\ ind \in Lotes(Len(LeerEventosCsv(csv)))
    /\ eventos' = LeerEventosCsv(csv)
    /\ indices' = ind
    /\ pos' = 1
    /\ pc' = "lote"
    /\ lote' = LoteNulo
    /\ docker' = ConfigNula
    /\ UNCHANGED <<csv, contenedores, volumen, config, sondeoVars, escritura, ciclo, llamada>>

\* The for loop is over.
LoteFin ==
    /\ pc = "lote"
    /\ pos > Len(indices)
    /\ pc' = "fin"
    /\ lote' = [lote EXCEPT !.resultado = "ok"]
    /\ UNCHANGED <<csv, contenedores, volumen, eventos, indices, pos, config,
                   sondeoVars, escritura, ciclo, docker, llamada>>

\* `if not (0 <= idx < len(eventos)): raise ValueError`
IndiceFueraDeRango ==
    /\ pc = "lote"
    /\ pos <= Len(indices)
    /\ ~(0 <= indices[pos] /\ indices[pos] < Len(eventos))
    /\ pc' = "fin"
    /\ lote' = [lote EXCEPT !.resultado = "ValueError"]
    /\ UNCHANGED <<csv, contenedores, volumen, eventos, indices, pos, config,
                   sondeoVars, escritura, ciclo, docker, llamada>>

\* The cycle of one record starts: EventoConfig(...) and validar().
CicloInicio ==
    /\ pc = "lote"
    /\ pos <= Len(indices)
    /\ 0 <= indices[pos] /\ indices[pos] < Len(eventos)
    /\ LET ev == eventos[indices[pos] + 1]
           r == ConfigDeEvento(ev)
           c0 == [CicloNulo EXCEPT !.nombre = Get(ev, "name"), !.csv0 = csv]
       IN  /\ lote' = [lote EXCEPT !.iniciados = Append(@, indices[pos])]
           /\ IF ~r.ok
              THEN /\ pc' = "fin_ciclo"          \* outer except
                   /\ config' = ConfigNula
                   /\ ciclo' = [c0 EXCEPT !.fin = "config"]
              ELSE IF Validar(r.config) # <<>>
              THEN /\ pc' = "fin_ciclo"          \* continue
                   /\ config' = r.config
                   /\ ciclo' = [c0 EXCEPT !.fin = "invalido"]
              ELSE /\ pc' = "evict"
                   /\ config' = r.config
                   /\ ciclo' = c0
    /\ UNCHANGED <<csv, contenedores, volumen, eventos, indices, pos, sondeoVars,
                   escritura, docker, llamada>>

\* An eviction whose failure is only logged: the cycle goes on to the launch.
EvictSoloRegistra ==
    /\ pc = "evict"
    /\ \E r \in VerificarYLimpiarContenedor(contenedores, config.nombre) :
           /\ contenedores' = r.cont
           /\ ciclo' = [ciclo EXCEPT !.desalojado = (r.cont # contenedores),
                                     !.pasos = Append(@, Paso("evict", r.ok))]
    /\ pc' = "limpiar"
    /\ lote' = [lote EXCEPT !.ops = TRUE]
    /\ docker' = config
    /\ UNCHANGED <<csv, volumen, eventos, indices, pos, config, sondeoVars, escritura,
                   llamada>>

\* self.verificar_y_limpiar_contenedor(config.nombre)
Evict ==
    /\ pc = "evict"
    /\ \E r \in VerificarYLimpiarContenedor(contenedores, config.nombre) :
           /\ contenedores' = r.cont
           /\ pc' = IF r.ok THEN "limpiar" ELSE "fin_ciclo"
           /\ ciclo' = IF r.ok
                       THEN [ciclo EXCEPT !.desalojado = (r.cont # contenedores),
                                          !.pasos = Append(@, Paso("evict", TRUE))]
                       ELSE [ciclo EXCEPT !.fin = "evict",
                                          !.pasos = Append(@, Paso("evict", FALSE))]
    /\ lote' = [lote EXCEPT !.ops = TRUE]
    /\ docker' = config
    /\ UNCHANGED <<csv, volumen, eventos, indices, pos, config, sondeoVars, escritura,
                   llamada>>

\* A sanitizer whose scan errors are not caught: they end the cycle.
LimpiarFatal ==
    /\ pc = "limpiar"
    /\ \E o \in LimpiarArchivosTemporales(volumen[NombreVolumen(config.nombre)]) :
           /\ volumen' = [volumen EXCEPT ![NombreVolumen(config.nombre)] = o.vol]
           /\ pc' = IF o.causa = "scan" THEN "fin_ciclo" ELSE "run"
           /\ ciclo' = [ciclo EXCEPT
                           !.pasos = Append(@, Paso("limpiar", o.causa # "scan")),
                           !.saneado = NombreVolumen(config.nombre),
                           !.limpieza = [causa |-> o.causa, eliminados |-> o.eliminados],
                           !.fin = IF o.causa = "scan" THEN "limpiar" ELSE @]
    /\ UNCHANGED <<csv, contenedores, eventos, indices, pos, config, sondeoVars,
                   escritura, lote, docker, llamada>>

\* self.limpiar_archivos_temporales(f"acestreamengine_{config.nombre}"): the
\* call returns whatever happened inside, and the count is logged.
Limpiar ==
    /\ pc = "limpiar"
    /\ \E o \in LimpiarArchivosTemporales(volumen[NombreVolumen(config.nombre)]) :
           /\ volumen' = [volumen EXCEPT ![NombreVolumen(config.nombre)] = o.vol]
           /\ ciclo' = [ciclo EXCEPT
                           !.pasos = Append(@, Paso("limpiar", TRUE)),
                           !.saneado = NombreVolumen(config.nombre),
                           !.limpieza = [causa |-> o.causa, eliminados |-> o.eliminados]]
    /\ pc' = "run"
    /\ UNCHANGED <<csv, contenedores, eventos, indices, pos, config, sondeoVars,
                   escritura, lote, docker, llamada>>

\* self.ejecutar_docker(config)
Lanzar ==
    /\ pc = "run"
    /\ \E r \in EjecutarDocker(contenedores, config.nombre) :
           /\ contenedores' = r.cont
           /\ volumen' = IF r.ok
                         THEN [volumen EXCEPT ![VolumenDeRun(config)] = VolumenEnUso]
                         ELSE volumen
           /\ pc' = IF r.ok THEN "resolver" ELSE "fin_ciclo"
           /\ ciclo' = IF r.ok
                       THEN [ciclo EXCEPT !.lanzado = TRUE,
                                          !.montado = VolumenDeRun(config),
                                          !.limpieza = LimpiezaNula,
                                          !.pasos = Append(@, Paso("run", TRUE))]
                       ELSE [ciclo EXCEPT !.fin = "run",
                                          !.montado = VolumenDeRun(config),
                                          !.limpieza = LimpiezaNula,
                                          !.pasos = Append(@, Paso("run", FALSE))]
    /\ docker' = config
    /\ UNCHANGED <<csv, eventos, indices, pos, config, sondeoVars, escritura, lote, llamada>>

\* time.sleep(10); docker ps --filter name=^nombre$; then obtener_monitor is
\* called with the default number of attempts.
Resolver ==
    /\ pc = "resolver"
    /\ \E ok \in BOOLEAN :
           IF ok
           THEN /\ pc' = "warmup"
                /\ intentos' = IntentosDefault
                /\ lote' = [lote EXCEPT !.sondeos = @ + 1]
                /\ ciclo' = [ciclo EXCEPT !.pasos = Append(@, Paso("ps", TRUE))]
           ELSE /\ pc' = "fin_ciclo"               \* inner except
                /\ intentos' = intentos
                /\ ciclo' = [ciclo EXCEPT !.fin = "sin_id",
                                          !.pasos = Append(@, Paso("ps", FALSE))]
                /\ lote' = lote
    /\ intento' = 0
    /\ monitor' = MonitorPendiente
    /\ visto' = ""
    /\ traza' = <<>>
    /\ docker' = config
    /\ UNCHANGED <<csv, contenedores, volumen, eventos, indices, pos, config,
                   escritura, llamada>>

(***************************************************************************)
(* obtener_monitor(contenedor_id, puerto, intentos).                       *)
(***************************************************************************)
\* time.sleep(tiempo_espera_inicial), then the for loop is entered.
EsperaInicial ==
    /\ pc = "warmup"
    /\ IF intentos <= 0
       THEN /\ pc' = "poll_ret"                  \* range(0): straight to the raise
            /\ monitor' = [estado |-> "agotado", cid |-> ""]
       ELSE /\ pc' = "get"
            /\ monitor' = monitor
    /\ traza' = Append(traza, "warmup")
    /\ UNCHANGED <<csv, contenedores, volumen, eventos, indices, pos, config, intentos,
                   intento, visto, escritura, ciclo, lote, docker, llamada>>

\* How one iteration of the loop ends, given the response r to its GET:
\* "return", "AttributeError" (monitor_data.get on a body that is no dict)
\* or "sleep" (every logged outcome falls through to time.sleep).
Clasificar(r) ==
    IF LanzaRequestException(r) THEN "sleep"
    ELSE IF StatusCode(r) # 200 THEN "sleep"
    ELSE IF JsonInvalido(r) THEN "sleep"
    ELSE IF ~EsDict(r) THEN "AttributeError"
    ELSE IF CidUsable(r) THEN "return"
    ELSE "sleep"

\* One iteration of `for intento in range(intentos)`: the GET, its
\* classification, the sleep between attempts and the end of the loop.
Intento(r) ==
    /\ pc = "get"
    /\ intento < intentos
    /\ intento' = intento + 1
    /\ visto' = IF CidUsable(r) THEN r.cid ELSE visto
    /\ traza' = IF Clasificar(r) = "sleep"
                THEN traza \o <<"get", "wait">>   \* time.sleep(tiempo_entre_intentos)
                ELSE Append(traza, "get")
    /\ LET fin == Clasificar(r) IN
       CASE fin = "return" ->
                /\ monitor' = [estado |-> "ok", cid |-> r.cid]
                /\ pc' = "poll_ret"
         [] fin = "AttributeError" ->
                /\ monitor' = [estado |-> "AttributeError", cid |-> ""]
                /\ pc' = "poll_ret"
         [] OTHER ->
                IF intento + 1 = intentos
                THEN /\ monitor' = [estado |-> "agotado", cid |-> ""]   \* RuntimeError
                     /\ pc' = "poll_ret"
                ELSE /\ monitor' = monitor
                     /\ pc' = "get"
    /\ UNCHANGED <<csv, contenedores, volumen, eventos, indices, pos, config, intentos,
                   escritura, ciclo, lote, docker, llamada>>

(***************************************************************************)
(* Back in crear_desde_csv: the result of the poll, and the commit         *)
(* _actualizar_content_id(config.nombre, content_id).                      *)
(***************************************************************************)
\* A failed poll that also blanks the stored content id of the record.
MonitorFalloBorraId ==
    /\ pc = "poll_ret"
    /\ monitor.estado # "ok"
    /\ pc' = "fin_ciclo"
    /\ csv' = [i \in 1..Len(csv) |->
                  IF i > 1 /\ csv[i][1] = config.nombre
                  THEN [csv[i] EXCEPT ![Len(Cabeceras)] = ""]
                  ELSE csv[i]]
    /\ ciclo' = [ciclo EXCEPT !.sondeo = monitor.estado, !.fin = monitor.estado,
                              !.pasos = Append(@, Paso("poll", FALSE))]
    /\ lote' = [lote EXCEPT !.ops = TRUE]
    /\ intentos' = 0
    /\ intento' = 0
    /\ visto' = ""
    /\ traza' = <<>>
    /\ UNCHANGED <<contenedores, volumen, eventos, indices, pos, config, monitor,
                   escritura, docker, llamada>>

\* An outer layer that calls obtener_monitor again when it raised.
MonitorFalloReintenta ==
    /\ pc = "poll_ret"
    /\ monitor.estado # "ok"
    /\ pc' = "warmup"
    /\ ciclo' = [ciclo EXCEPT !.pasos = Append(@, Paso("poll", FALSE))]
    /\ lote' = [lote EXCEPT !.ops = TRUE, !.sondeos = @ + 1]
    /\ intentos' = IntentosDefault
    /\ intento' = 0
    /\ visto' = ""
    /\ traza' = <<>>
    /\ monitor' = MonitorPendiente
    /\ UNCHANGED <<csv, contenedores, volumen, eventos, indices, pos, config,
                   escritura, docker, llamada>>

\* obtener_monitor raised: `except Exception` of the inner try.
MonitorFallo ==
    /\ pc = "poll_ret"
    /\ monitor.estado # "ok"
    /\ pc' = "fin_ciclo"
    /\ ciclo' = [ciclo EXCEPT !.sondeo = monitor.estado, !.fin = monitor.estado,
                              !.pasos = Append(@, Paso("poll", FALSE))]
    /\ lote' = [lote EXCEPT !.ops = TRUE]
    /\ intentos' = 0                          \* the locals of obtener_monitor are gone
    /\ intento' = 0
    /\ visto' = ""
    /\ traza' = <<>>
    /\ UNCHANGED <<csv, contenedores, volumen, eventos, indices, pos, config,
                   monitor, escritura, docker, llamada>>

\* obtener_monitor returned info; _actualizar_content_id reads the store.
ActualizarLeer ==
    /\ pc = "poll_ret"
    /\ monitor.estado = "ok"
    /\ escritura' = [antes |-> csv, evs |-> LeerEventosCsv(csv), k |-> 0,
                     nombre |-> config.nombre, cid |-> monitor.cid]
    /\ pc' = "abrir"
    /\ ciclo' = [ciclo EXCEPT !.sondeo = "ok", !.cid = monitor.cid,
                              !.pasos = Append(@, Paso("poll", TRUE))]
    /\ lote' = [lote EXCEPT !.ops = TRUE]
    /\ intentos' = 0                          \* the locals of obtener_monitor are gone
    /\ intento' = 0
    /\ visto' = ""
    /\ traza' = <<>>
    /\ UNCHANGED <<csv, contenedores, volumen, eventos, indices, pos, config,
                   monitor, docker, llamada>>

\* open(csv_path, 'w'): the file is truncated.
ActualizarAbrir ==
    /\ pc = "abrir"
    /\ csv' = <<>>
    /\ pc' = "cabecera"
    /\ UNCHANGED <<contenedores, volumen, eventos, indices, pos, config, sondeoVars,
                   escritura, ciclo, lote, docker, llamada>>

\* writer.writerow(self.cabeceras)
ActualizarCabecera ==
    /\ pc = "cabecera"
    /\ csv' = <<Cabeceras>>
    /\ pc' = "fila"
    /\ UNCHANGED <<contenedores, volumen, eventos, indices, pos, config, sondeoVars,
                   escritura, ciclo, lote, docker, llamada>>

\* One iteration of `for evento in eventos`: evento['name'] raises KeyError
\* when the file read had no "name" column.
ActualizarFila ==
    /\ pc = "fila"
    /\ escritura.k < Len(escritura.evs)
    /\ LET ev == escritura.evs[escritura.k + 1] IN
       IF Tiene(ev, "name")
       THEN /\ csv' = Append(csv, FilaActualizada(ev, escritura.nombre, escritura.cid))
            /\ escritura' = [escritura EXCEPT !.k = @ + 1]
            /\ pc' = "fila"
            /\ ciclo' = ciclo
       ELSE /\ csv' = csv
            /\ escritura' = escritura
            /\ pc' = "fin_ciclo"
            /\ ciclo' = [ciclo EXCEPT !.commit = "fallo", !.fin = "commit",
                                      !.pasos = Append(@, Paso("commit", FALSE))]
    /\ UNCHANGED <<contenedores, volumen, eventos, indices, pos, config, sondeoVars,
                   lote, docker, llamada>>

\* The loop is over and the file is closed.
ActualizarCerrar ==
    /\ pc = "fila"
    /\ escritura.k = Len(escritura.evs)
    /\ pc' = "fin_ciclo"
    /\ ciclo' = [ciclo EXCEPT !.commit = "hecho", !.fin = "completo",
                              !.pasos = Append(@, Paso("commit", TRUE))]
    /\ UNCHANGED <<csv, contenedores, volumen, eventos, indices, pos, config,
                   sondeoVars, escritura, lote, docker, llamada>>

\* A loop without the except clauses: an error of the cycle ends the batch.
CicloFinSinExcept ==
    /\ pc = "fin_ciclo"
    /\ pc' = IF ciclo.fin \in {"completo", "invalido"} THEN "lote" ELSE "fin"
    /\ pos' = pos + 1
    /\ config' = ConfigNula
    /\ intentos' = 0
    /\ intento' = 0
    /\ monitor' = MonitorPendiente
    /\ visto' = ""
    /\ traza' = <<>>
    /\ docker' = ConfigNula
    /\ escritura' = EscrituraNula
    /\ ciclo' = CicloNulo
    /\ lote' = [lote EXCEPT !.fines = Append(@, ciclo.fin),
                            !.resultado = IF ciclo.fin \in {"completo", "invalido"}
                                          THEN @ ELSE "Exception"]
    /\ UNCHANGED <<csv, contenedores, volumen, eventos, indices, llamada>>

\* The body of the for loop is over, by its end, by `continue` or by one of
\* the two except clauses: next index.
CicloFin ==
    /\ pc = "fin_ciclo"
    /\ pc' = "lote"
    /\ pos' = pos + 1
    /\ config' = ConfigNula
    /\ intentos' = 0
    /\ intento' = 0
    /\ monitor' = MonitorPendiente
    /\ visto' = ""
    /\ traza' = <<>>
    /\ docker' = ConfigNula
    /\ escritura' = EscrituraNula
    /\ ciclo' = CicloNulo
    /\ lote' = [lote EXCEPT !.fines = Append(@, ciclo.fin)]
    /\ UNCHANGED <<csv, contenedores, volumen, eventos, indices, llamada>>

\* crear_desde_csv returned or raised: back in the menu loop of main().
Volver ==
    /\ pc = "fin"
    /\ pc' = "menu"
    /\ eventos' = <<>>
    /\ indices' = <<>>
    /\ pos' = 0
    /\ lote' = LoteNulo
    /\ docker' = ConfigNula
    /\ UNCHANGED <<csv, contenedores, volumen, config, sondeoVars, escritura, ciclo, llamada>>

(***************************************************************************)
(* Faults of the file system and of the process during the rewrite.        *)
(***************************************************************************)
\* open() or writerow() raises OSError: the file is closed as it is and the
\* inner except of crear_desde_csv logs the error.
FalloEscritura ==
    /\ pc \in {"abrir", "cabecera", "fila"}
    /\ pc' = "fin_ciclo"
    /\ ciclo' = [ciclo EXCEPT !.commit = "fallo", !.fin = "commit",
                              !.pasos = Append(@, Paso("commit", FALSE))]
    /\ UNCHANGED <<csv, contenedores, volumen, eventos, indices, pos, config,
                   sondeoVars, escritura, lote, docker, llamada>>

\* The process is killed while _actualizar_content_id runs.
Terminar ==
    /\ pc \in {"abrir", "cabecera", "fila"}
    /\ pc' = "terminado"
    /\ UNCHANGED <<csv, contenedores, volumen, eventos, indices, pos, config,
                   sondeoVars, escritura, ciclo, lote, docker, llamada>>

(***************************************************************************)
(* Specifications.                                                         *)
(***************************************************************************)
Next ==
    \/ \E e \in Entradas : Crear(e)
    \/ \E ind \in Lotes(MaxFilas + 1) : LoteIniciar(ind)
    \/ LoteFin
    \/ IndiceFueraDeRango
    \/ CicloInicio
    \/ Evict
    \/ Limpiar
    \/ Lanzar
    \/ Resolver
    \/ EsperaInicial
    \/ \E r \in Respuestas : Intento(r)
    \/ MonitorFallo
    \/ ActualizarLeer
    \/ ActualizarAbrir
    \/ ActualizarCabecera
    \/ ActualizarFila
    \/ ActualizarCerrar
    \/ CicloFin
    \/ Volver

\* The program with a file system that does not fail.
Spec == Init /\ [][Next]_vars

\* A step of crear_desde_csv: everything but the choices of the user.
PasoDeLote ==
    \/ LoteFin
    \/ IndiceFueraDeRango
    \/ CicloInicio
    \/ Evict
    \/ Limpiar
    \/ Lanzar
    \/ Resolver
    \/ EsperaInicial
    \/ \E r \in Respuestas : Intento(r)
    \/ MonitorFallo
    \/ ActualizarLeer
    \/ ActualizarAbrir
    \/ ActualizarCabecera
    \/ ActualizarFila
    \/ ActualizarCerrar
    \/ CicloFin

\* Stores as the create action leaves them, for batches on their own: one
\* record, two records, and a record after a row with port 80.
FilaCreada(n) == FilaDeConfig(SolicitarDatosEvento(EntradaBase(n)).config)

ArchivosDeLote ==
    {<<Cabeceras, FilaCreada("a")>>,
     <<Cabeceras, FilaCreada("a"), FilaCreada("b")>>,
     <<Cabeceras, FilaPuerto80, FilaCreada("a")>>}

InitLote ==
    /\ csv \in ArchivosDeLote
    /\ contenedores = [n \in Nombres |-> 0]
    /\ volumen = [v \in Volumenes |-> VolumenAusente]
    /\ pc = "menu"
    /\ eventos = <<>>
    /\ indices = <<>>
    /\ pos = 0
    /\ config = ConfigNula
    /\ intentos = 0
    /\ intento = 0
    /\ monitor = MonitorPendiente
    /\ visto = ""
    /\ escritura = EscrituraNula
    /\ ciclo = CicloNulo
    /\ lote = LoteNulo
    /\ traza = <<>>
    /\ docker = ConfigNula
    /\ llamada = LlamadaNula

\* main() when the user only asks for batches.
NextLote ==
    \/ \E ind \in Lotes(MaxFilas + 1) : LoteIniciar(ind)
    \/ PasoDeLote
    \/ Volver

\* Batches when every call the program makes returns or fails: the single
\* thread of crear_desde_csv goes on to its next statement.
SpecLoteJusto == InitLote /\ [][NextLote]_vars /\ WF_vars(PasoDeLote)

NextFallos == Next \/ FalloEscritura \/ Terminar

\* The program with write faults and process termination during the rewrite.
SpecFallos == Init /\ [][NextFallos]_vars

\* obtener_monitor on its own, for every number of attempts up to MaxIntentos.
InitSondeo ==
    /\ csv = <<Cabeceras>>
    /\ contenedores = [n \in Nombres |-> 0]
    /\ volumen = [v \in Volumenes |-> VolumenAusente]
    /\ pc = "warmup"
    /\ eventos = <<>>
    /\ indices = <<>>
    /\ pos = 0
    /\ config = ConfigNula
    /\ intentos \in 0..MaxIntentos
    /\ intento = 0
    /\ monitor = MonitorPendiente
    /\ visto = ""
    /\ escritura = EscrituraNula
    /\ ciclo = CicloNulo
    /\ lote = LoteNulo
    /\ traza = <<>>
    /\ docker = ConfigNula
    /\ llamada = LlamadaNula

\* validar() called on its own, some times in a row, on a record of the sample.
InitValidar ==
    /\ csv = <<Cabeceras>>
    /\ contenedores = [n \in Nombres |-> 0]
    /\ volumen = [v \in Volumenes |-> VolumenAusente]
    /\ pc = "validar"
    /\ eventos = <<>>
    /\ indices = <<>>
    /\ pos = 0
    /\ config \in ConfigsMuestra
    /\ intentos = 0
    /\ intento = 0
    /\ monitor = MonitorPendiente
    /\ visto = ""
    /\ escritura = EscrituraNula
    /\ ciclo = CicloNulo
    /\ lote = LoteNulo
    /\ traza = <<>>
    /\ docker = ConfigNula
    /\ llamada = LlamadaNula

\* errores = config.validar(): the method reads the fields and assigns none.
LlamarValidar ==
    /\ pc = "validar"
    /\ llamada.n < MaxLlamadas
    /\ llamada' = [fn |-> "validar", n |-> llamada.n + 1, arg |-> config,
                   res |-> Validar(config), previo |-> llamada.res]
    /\ UNCHANGED <<csv, contenedores, volumen, pc, eventos, indices, pos, config,
                   sondeoVars, escritura, ciclo, lote, docker>>

SpecValidar == InitValidar /\ [][LlamarValidar]_vars

\* Volumes the sanitizer is tried with when it is called on its own: no
\* directory, and a directory with any set of the sample children.
VolumenesMuestra ==
    {VolumenAusente} \cup {[existe |-> TRUE, archivos |-> h] : h \in SUBSET HijosMuestra}

\* limpiar_archivos_temporales called on its own, some times in a row, on the
\* volume of "a".
InitLimpiar ==
    /\ csv = <<Cabeceras>>
    /\ contenedores = [n \in Nombres |-> 0]
    /\ \E m \in VolumenesMuestra :
           volumen = [v \in Volumenes |->
                         IF v = NombreVolumen("a") THEN m ELSE VolumenAusente]
    /\ pc = "sanitizar"
    /\ eventos = <<>>
    /\ indices = <<>>
    /\ pos = 0
    /\ config = ConfigNula
    /\ intentos = 0
    /\ intento = 0
    /\ monitor = MonitorPendiente
    /\ visto = ""
    /\ escritura = EscrituraNula
    /\ ciclo = CicloNulo
    /\ lote = LoteNulo
    /\ traza = <<>>
    /\ docker = ConfigNula
    /\ llamada = LlamadaNula

\* n = self.limpiar_archivos_temporales("acestreamengine_a")
LlamarLimpiar ==
    /\ pc = "sanitizar"
    /\ llamada.n < MaxLlamadas
    /\ \E o \in LimpiarArchivosTemporales(volumen[NombreVolumen("a")]) :
           /\ volumen' = [volumen EXCEPT ![NombreVolumen("a")] = o.vol]
           /\ llamada' = [fn |-> "limpiar", n |-> llamada.n + 1,
                          arg |-> volumen[NombreVolumen("a")],
                          res |-> [eliminados |-> o.eliminados, causa |-> o.causa,
                                   fallan |-> o.fallan],
                          previo |-> llamada.res]
    /\ UNCHANGED <<csv, contenedores, pc, eventos, indices, pos, config, sondeoVars,
                   escritura, ciclo, lote, docker>>

SpecLimpiar == InitLimpiar /\ [][LlamarLimpiar]_vars

NextSondeo == EsperaInicial \/ \E r \in Respuestas : Intento(r)

SpecSondeo == InitSondeo /\ [][NextSondeo]_vars

(***************************************************************************)
(* Properties.                                                             *)
(***************************************************************************)
\* Rows of the store as dicts, for stating properties of its content.
Filas == LeerEventosCsv(csv)

FilasDe(nombre) == {i \in 1..Len(Filas) : Get(Filas[i], "name") = nombre}

EnRango(idx) == 0 <= idx /\ idx < Len(eventos)

\* C1: at most one container of each name exists in every reachable state;
\* `docker run` is issued only when none of that name exists (the lookup found
\* none, or stop and remove both succeeded); and at the end of a cycle whose
\* launch succeeded exactly one container of the record's name exists.
C1_UnContenedorPorNombre ==
    /\ \A n \in Nombres : contenedores[n] <= 1
    /\ pc = "run" => contenedores[config.nombre] = 0
    /\ (pc = "fin_ciclo" /\ ciclo.lanzado) => contenedores[ciclo.nombre] = 1

\* A cycle that found a container of the record's name, removed it and
\* launched the new one.
C1_Testigo ==
    /\ pc = "fin_ciclo"
    /\ ciclo.desalojado
    /\ ciclo.lanzado
    /\ contenedores[ciclo.nombre] = 1

\* C2: a batch that ends with the index error has performed no container
\* lookup, stop, remove or run, no sanitization, no poll and no store rewrite
\* for any of its indices.
C2_IndiceAbortaAntesDeProcesar ==
    (pc = "fin" /\ lote.resultado = "ValueError") => ~lote.ops

\* C3: a call of obtener_monitor never issues more than `intentos` GETs,
\* issues none after a usable response, returns the content id of that
\* response, and otherwise ends with the exhausted-retries error after exactly
\* `intentos` GETs.
C3_SondeoExacto ==
    /\ intento <= intentos
    /\ (visto # "" /\ pc \in {"get", "poll_ret"}) =>
           (pc = "poll_ret" /\ monitor = [estado |-> "ok", cid |-> visto])
    /\ (pc = "poll_ret" /\ visto = "") =>
           (monitor.estado = "agotado" /\ intento = intentos)

\* C4: no outcome other than a usable content id ends a call of
\* obtener_monitor before `intentos` attempts have been made.
C4_SoloUsableTerminaAntes ==
    (pc = "poll_ret" /\ monitor.estado # "ok") => intento = intentos

\* C5: at the end of a cycle whose poll returned a content id, the store has
\* a row of the record's name and every row of that name holds the returned
\* id, whatever it held before.
C5_CommitGuardaElCid ==
    (pc = "fin_ciclo" /\ ciclo.sondeo = "ok") =>
        /\ FilasDe(ciclo.nombre) # {}
        /\ \A i \in FilasDe(ciclo.nombre) : Get(Filas[i], "content_id") = monitor.cid

\* A cycle that replaced another, non-empty content id of its record.
C5_Testigo ==
    /\ pc = "fin_ciclo"
    /\ ciclo.sondeo = "ok"
    /\ LET antes == LeerEventosCsv(ciclo.csv0) IN
       \E i \in 1..Len(antes) :
           /\ Get(antes[i], "name") = ciclo.nombre
           /\ Get(antes[i], "content_id") \notin {"", monitor.cid}
    /\ \A i \in FilasDe(ciclo.nombre) : Get(Filas[i], "content_id") = monitor.cid

\* C6 as stated: at the end of a cycle whose poll exhausted its attempts the
\* rows of the record hold an empty content id.
C6_AgotadoDejaIdVacio ==
    (pc = "fin_ciclo" /\ ciclo.sondeo = "agotado") =>
        \A i \in FilasDe(ciclo.nombre) : Get(Filas[i], "content_id") = ""

\* C6 as amended: a cycle whose poll exhausted its attempts leaves the store
\* as it was when the cycle started, so the record keeps the content id it
\* had: empty, or the one an earlier cycle committed.
C6_AgotadoNoCambiaElStore ==
    (pc = "fin_ciclo" /\ ciclo.sondeo = "agotado") => csv = ciclo.csv0

\* A cycle that removed the container of an earlier cycle, exhausted its poll
\* and left the content id of that earlier cycle in the store.
C6_Testigo ==
    /\ pc = "fin_ciclo"
    /\ ciclo.sondeo = "agotado"
    /\ ciclo.desalojado
    /\ csv = ciclo.csv0
    /\ \E i \in FilasDe(ciclo.nombre) : Get(Filas[i], "content_id") # ""

\* C7: a completed commit keeps the number and order of the rows, changes
\* the content_id of exactly one row, the one of the given name, and leaves
\* every other field of that row and every field of every other row as it was.
C7_CommitCambiaUnSoloRegistro ==
    (pc = "fin_ciclo" /\ ciclo.commit = "hecho") =>
        LET antes == escritura.antes
            suyas == {i \in 2..Len(antes) : antes[i][1] = escritura.nombre}
        IN  /\ Len(csv) = Len(antes)
            /\ csv[1] = antes[1]
            /\ Cardinality(suyas) = 1
            /\ \A i \in 2..Len(antes) : \A j \in 1..Len(Cabeceras) :
                   (i \notin suyas \/ j # Len(Cabeceras)) => csv[i][j] = antes[i][j]

\* The store a commit is to produce from the rows it read.
Despues ==
    <<Cabeceras>>
    \o [i \in 1..Len(escritura.evs) |->
          IF Tiene(escritura.evs[i], "name")
          THEN FilaActualizada(escritura.evs[i], escritura.nombre, escritura.cid)
          ELSE escritura.evs[i].row]

\* C8: at every point of a commit, and after a write fault or the end of the
\* process within it, the file holds the complete rows from before the commit
\* or the complete rows after it.
C8_ReescrituraAtomica ==
    (pc \in {"abrir", "cabecera", "fila", "terminado"}
     \/ (pc = "fin_ciclo" /\ ciclo.commit # "no")) =>
        (csv = escritura.antes \/ csv = Despues)

\* C9: no two rows of the store have the same name.
C9_NombresUnicos ==
    \A i, j \in 1..Len(Filas) :
        i # j => Get(Filas[i], "name") # Get(Filas[j], "name")

\* C10: the cycles started in a batch are those of its indices, in order, and
\* a batch whose indices are all in range ends without an error having
\* started the cycle of every index, whatever the earlier cycles ended with.
C10_LoteContinua ==
    /\ pc \in {"lote", "fin_ciclo", "fin"} =>
           /\ Len(lote.iniciados) <= Len(indices)
           /\ lote.iniciados = SubSeq(indices, 1, Len(lote.iniciados))
    /\ (pc = "fin" /\ \A k \in 1..Len(indices) : EnRango(indices[k])) =>
           /\ lote.resultado = "ok"
           /\ lote.iniciados = indices
           /\ Len(lote.fines) = Len(indices)

\* A batch of two records whose first cycle failed in its commit and whose
\* second cycle ran to its end.
C10_Testigo ==
    /\ pc = "fin"
    /\ lote.resultado = "ok"
    /\ Len(indices) = 2
    /\ lote.iniciados = indices
    /\ lote.fines = <<"commit", "completo">>

\* The steps of a cycle whose failure ends the cycle.
PasosFatales == {"evict", "run", "ps", "poll"}

\* The step x of the current cycle was made and ended as ok says.
Hecho(x, ok) == \E k \in 1..Len(ciclo.pasos) : ciclo.pasos[k] = Paso(x, ok)

\* The step x of the current cycle was made.
Dado(x) == \E k \in 1..Len(ciclo.pasos) : ciclo.pasos[k].paso = x

\* C11: within a cycle, a runtime step or the sanitization is made only for a
\* record whose validation gave no violation; no step follows a failed lookup,
\* stop, remove, run or poll; run is issued only after a successful eviction,
\* the poll is started only after a successful run, and the store is rewritten
\* only after a poll that returned a usable content id.
C11_PasoSoloTrasExito ==
    /\ (ciclo.pasos # <<>> \/ pc \in {"evict", "limpiar", "run"}) =>
           (config # ConfigNula /\ Validar(config) = <<>>)
    /\ \A k \in 1..Len(ciclo.pasos) : \A j \in 1..(k - 1) :
           ciclo.pasos[j].paso \in PasosFatales => ciclo.pasos[j].ok
    /\ (Dado("limpiar") \/ pc = "limpiar") => Hecho("evict", TRUE)
    /\ (Dado("run") \/ pc = "run") => Hecho("evict", TRUE)
    /\ (Dado("poll") \/ pc \in {"warmup", "get", "poll_ret"}) => Hecho("run", TRUE)
    /\ (Dado("commit") \/ pc \in {"abrir", "cabecera", "fila"}
        \/ (pc = "fin_ciclo" /\ csv # ciclo.csv0)) =>
           (Hecho("poll", TRUE) /\ ciclo.cid \notin {"", NoEncontrado})

\* A cycle whose run failed after a successful eviction and sanitization, and
\* that ended there: no poll, no rewrite.
C11_Testigo ==
    /\ pc = "fin_ciclo"
    /\ ciclo.pasos = <<Paso("evict", TRUE), Paso("limpiar", TRUE), Paso("run", FALSE)>>
    /\ csv = ciclo.csv0

\* What can go wrong inside limpiar_archivos_temporales, and nothing ("ninguna").
CausasLimpieza == {"so", "ausente", "scan", "unlink", "ninguna"}

\* C12: whatever happens inside the sanitizer, its call returns a count and
\* the cycle stands before the launch; every cycle that called the sanitizer
\* went on to issue the run; and after a failed eviction neither the
\* sanitizer nor the run is reached.
C12_LimpiezaNoEsFatal ==
    /\ pc = "run" =>
           /\ ciclo.limpieza.causa \in CausasLimpieza
           /\ ciclo.limpieza.eliminados \in Nat
           /\ ciclo.pasos[Len(ciclo.pasos)] = Paso("limpiar", TRUE)
    /\ (pc = "fin_ciclo" /\ Dado("limpiar")) => (Hecho("limpiar", TRUE) /\ Dado("run"))
    /\ Hecho("evict", FALSE) => (~Dado("limpiar") /\ ~Dado("run") /\ pc = "fin_ciclo")

\* A sanitization in which the deletion of c.tmp failed, so that nothing was
\* deleted, and the cycle stands before the launch.
C12_Testigo ==
    /\ pc = "run"
    /\ ciclo.limpieza = [causa |-> "unlink", eliminados |-> 0]
    /\ "c.tmp" \in volumen[NombreVolumen(config.nombre)].archivos

\* The file desp has the rows of the file antes, in their order, each with
\* its fields other than content_id as they were.
MismosRegistros(antes, desp) ==
    /\ Len(desp) = Len(antes)
    /\ \A i \in 1..Len(antes) :
           /\ Len(desp[i]) = Len(antes[i])
           /\ \A j \in 1..Len(antes[i]) :
                  (i = 1 \/ j # Len(Cabeceras)) => desp[i][j] = antes[i][j]

\* C13: a step of the menu that changes the store is the create action with
\* an input whose validation gave no violation, and it appends the row of that
\* input, with an empty content_id, to the rows that were there; and when a
\* cycle is over, or the process has ended within it, the store has the rows
\* it had when the cycle started, changed in their content_id at most.
C13_SoloAltaValidaYSoloContentId ==
    /\ [](pc \in {"fin_ciclo", "terminado"} => MismosRegistros(ciclo.csv0, csv))
    /\ [][(pc = "menu" /\ pc' = "menu" /\ csv' # csv) =>
            \E e \in Entradas :
                LET s == SolicitarDatosEvento(e) IN
                /\ s.ok
                /\ Validar(s.config) = <<>>
                /\ csv' = Append(csv, FilaDeConfig(s.config))
                /\ csv'[Len(csv')][Len(Cabeceras)] = ""]_vars

\* C14: what validar returned has one violation for each of the six checks
\* that fails on the record (a name of letters, digits, hyphens and underscores
\* only; a port in [1024, 65535]; a host that is an IP literal or a domain;
\* a bitrate in [0, 10000000]; a title and a source that are not blank) and
\* nothing else, so it is empty exactly when all six hold; port 80 is rejected
\* and port 8642 with valid other fields accepted; the record is as it was,
\* and a second call returned what the first did.
C14_ValidarSeisChequeos ==
    llamada.fn = "validar" =>
        LET c == llamada.arg
            res == llamada.res
            Esta(x) == \E k \in 1..Len(res) : res[k] = x
            Veces(x) == Cardinality({k \in 1..Len(res) : res[k] = x})
            falla == [x \in {"nombre", "puerto", "host", "bitrate", "titulo", "source"} |->
                        CASE x = "nombre"  -> c.nombre \notin {"a", "b", "c"}
                          [] x = "puerto"  -> c.puerto < 1024 \/ c.puerto > 65535
                          [] x = "host"    -> c.host \notin {"10.0.0.5", "example.com"}
                          [] x = "bitrate" -> c.bitrate < 0 \/ c.bitrate > 10000000
                          [] x = "titulo"  -> c.titulo \in {"", " "}
                          [] x = "source"  -> c.source \in {"", " "}]
        IN  /\ \A x \in DOMAIN falla : Veces(x) = (IF falla[x] THEN 1 ELSE 0)
            /\ Len(res) = Cardinality({x \in DOMAIN falla : falla[x]})
            /\ (res = <<>>) <=> (\A x \in DOMAIN falla : ~falla[x])
            /\ c.puerto \in {80, 1023, 65536} => Esta("puerto")
            /\ (c.puerto = 8642 /\ \A x \in DOMAIN falla \ {"puerto"} : ~falla[x])
                   => res = <<>>
            /\ config = c
            /\ llamada.n >= 2 => res = llamada.previo

\* C15: a call of the sanitizer leaves the directory there and adds nothing;
\* what it deleted are files that are neither .acelive nor .sauth, never a
\* directory; when the scan ran to its end, it deleted every such file but
\* those whose deletion failed; the count it returned is the number of files
\* it deleted, 1 and c.tmp for {a.acelive, b.sauth, c.tmp}; and for a path
\* that does not exist it returned 0 and changed nothing.
C15_SoloBorraTemporales ==
    llamada.fn = "limpiar" =>
        LET antes == llamada.arg
            desp == volumen[NombreVolumen("a")]
            borrados == antes.archivos \ desp.archivos
            r == llamada.res
        IN  /\ desp.existe = antes.existe
            /\ desp.archivos \subseteq antes.archivos
            /\ borrados \subseteq {"c.tmp", "d.log"}
            /\ r.causa \in {"unlink", "ninguna"} =>
                   borrados = (antes.archivos \cap {"c.tmp", "d.log"}) \ r.fallan
            /\ r.eliminados = Cardinality(borrados)
            /\ (antes.archivos = {"a.acelive", "b.sauth", "c.tmp"} /\ r.causa = "ninguna") =>
                   (r.eliminados = 1 /\ desp.archivos = {"a.acelive", "b.sauth"})
            /\ ~antes.existe => (r.eliminados = 0 /\ desp = antes)

\* The calls of obtener_monitor the current cycle has made.
SondeosDelCiclo ==
    Cardinality({k \in 1..Len(ciclo.pasos) : ciclo.pasos[k] = Paso("ps", TRUE)})

\* C16: a batch that has started comes to its end; a cycle calls
\* obtener_monitor at most once, so that a batch has made at most one call for
\* each cycle it started and at most one cycle for each index; and a call
\* within a batch issues at most IntentosDefault GETs, so that the GETs of the
\* batch never exceed IntentosDefault times the number of its indices.
C16_LoteTermina ==
    /\ [](pc # "menu" =>
            /\ SondeosDelCiclo <= 1
            /\ lote.sondeos <= Len(lote.iniciados)
            /\ Len(lote.iniciados) <= Len(indices)
            /\ intento <= IntentosDefault
            /\ (pc = "get" => (intentos = IntentosDefault /\ lote.sondeos >= 1))
            /\ IntentosDefault * lote.sondeos <= IntentosDefault * Len(indices))
    /\ (pc = "lote") ~> (pc = "fin")

\* A batch of two indices at its end, each of whose cycles called the poller.
C16_Testigo ==
    /\ pc = "fin"
    /\ Len(indices) = 2
    /\ lote.sondeos = 2
    /\ lote.fines[2] = "agotado"

\* The inter-attempt waits of the current call of obtener_monitor.
Esperas == Cardinality({k \in 1..Len(traza) : traza[k] = "wait"})

\* C17: the trace of a call of obtener_monitor starts with the one warm-up
\* wait, a GET follows it, every later GET follows an inter-attempt wait and
\* every inter-attempt wait follows a GET; when a call with at least one
\* attempt is over its trace ends with a GET, and a call that exhausted its
\* attempts has made `intentos` - 1 inter-attempt waits.
C17_EsperaSoloEntreIntentos ==
    /\ Len(traza) >= 1 => traza[1] = "warmup"
    /\ \A k \in 2..Len(traza) : traza[k] # "warmup"
    /\ Len(traza) >= 2 => traza[2] = "get"
    /\ \A k \in 3..Len(traza) :
           /\ traza[k] = "get" => traza[k - 1] = "wait"
           /\ traza[k] = "wait" => traza[k - 1] = "get"
    /\ (pc = "poll_ret" /\ intentos >= 1) => traza[Len(traza)] = "get"
    /\ (pc = "poll_ret" /\ intentos >= 1 /\ monitor.estado = "agotado") =>
           Esperas = intentos - 1

\* C18: while a commit writes and when its cycle is over, every row whose
\* content_id is no longer the one the commit read is the row of the record of
\* this cycle, and holds the content id the endpoint returned to the poll of
\* this cycle, which is neither empty nor 'No encontrado'.
C18_SoloEscribeElIdResuelto ==
    (pc \in {"fila", "fin_ciclo"} /\ ciclo.sondeo = "ok") =>
        \A i \in 2..Len(csv) :
            (i <= Len(escritura.antes)
             /\ csv[i][Len(Cabeceras)] # escritura.antes[i][Len(Cabeceras)]) =>
                /\ monitor.estado = "ok"
                /\ csv[i][Len(Cabeceras)] = monitor.cid
                /\ csv[i][Len(Cabeceras)] \notin {"", NoEncontrado}
                /\ i = indices[pos] + 2

\* C19: the sanitizer is reached right after a successful eviction, with no
\* container of the record's name in the runtime; a step removes files from a
\* volume only then, from the volume of that name; and the volume a run
\* mounts is the one the sanitizer was called on just before.
C19_LimpiezaSinContenedor ==
    /\ [](pc = "limpiar" =>
            /\ ciclo.pasos = <<Paso("evict", TRUE)>>
            /\ contenedores[config.nombre] = 0)
    /\ [](ciclo.montado # <<>> =>
            /\ ciclo.saneado = ciclo.montado
            /\ \E k \in 2..Len(ciclo.pasos) :
                   /\ ciclo.pasos[k].paso = "run"
                   /\ ciclo.pasos[k - 1] = Paso("limpiar", TRUE))
    /\ [][\A n \in Nombres :
             volumen'[VolumenDeRun([nombre |-> n])].archivos
                 # volumen[VolumenDeRun([nombre |-> n])].archivos =>
                 \/ (pc = "run" /\ config.nombre = n)
                 \/ (pc = "limpiar" /\ config.nombre = n /\ contenedores[n] = 0)]_vars

\* A cycle before its launch that removed the container of an earlier cycle
\* and then deleted c.tmp from the volume that container had used.
C19_Testigo ==
    /\ pc = "run"
    /\ ciclo.desalojado
    /\ contenedores[config.nombre] = 0
    /\ ciclo.saneado = NombreVolumen(config.nombre)
    /\ volumen[ciclo.saneado].existe
    /\ "c.tmp" \notin volumen[ciclo.saneado].archivos

\* C20: the record a runtime operation (lookup, stop, remove, run) was just
\* issued for has no violation, in option 1 and in a cycle, where it is the
\* record of the cycle.
C20_DockerSoloTrasValidar ==
    docker # ConfigNula =>
        /\ Validar(docker) = <<>>
        /\ pc # "menu" => docker = config

\* A batch over a store with a record that has a violation and one that has
\* none: the runtime has just evicted the name of the latter.
C20_Testigo ==
    /\ pc = "limpiar"
    /\ docker = config
    /\ Validar(docker) = <<>>
    /\ \E i \in 1..Len(indices) :
           /\ i < pos
           /\ indices[i] + 1 <= Len(eventos)
           /\ Get(eventos[indices[i] + 1], "port") = "80"
    /\ ciclo.pasos = <<Paso("evict", TRUE)>>

====
